---------------------------- MODULE Spec2Model ----------------------------
(***************************************************************************)
(* A model of the string search server (server/server.py,                  *)
(* server/file_search.py): the StringSearchServer object, its accept loop, *)
(* one handler thread per accepted connection, and the dataset file.       *)
(*                                                                         *)
(* Texts are sequences of code points, payloads are sequences of bytes     *)
(* (0..255).  The dataset file is its decoded text, or NoFile when it      *)
(* cannot be opened or read.                                               *)
(***************************************************************************)
EXTENDS Integers, Sequences, FiniteSets, TLC

(***************************************************************************)
(* Bounds of the model.                                                    *)
(***************************************************************************)
\* Connections of the system specification (Spec).
MaxConns == 2
\* Longest payload a client sends in the query specification (QuerySpec).
MaxPayloadLen == 3
\* Longest dataset file text in the query specification.
MaxFileLen == 2
\* Largest configured max_payload.
MaxPayloadCfg == 2
MaxCfgLen == 4
MaxLoadLen == 4

(***************************************************************************)
(* Input alphabets.                                                        *)
(***************************************************************************)
\* 'a', ' ', and 0xC2 0xA0 (U+00A0 NO-BREAK SPACE, which str.strip removes);
\* 0xC2 alone is a truncated character, 0xA0 alone a stray continuation byte.
PayloadBytes == {97, 32, 194, 160}
\* 'a', 'A', ' ', '\n'
FileChars == {97, 65, 32, 10}

NoFile == <<-1>>

RECURSIVE SeqsUpTo(_, _)
SeqsUpTo(S, n) ==
  IF n = 0 THEN {<<>>}
  ELSE LET shorter == SeqsUpTo(S, n - 1)
       IN  shorter \cup {Append(s, x) : s \in {t \in shorter : Len(t) = n - 1}, x \in S}

Range(s) == {s[i] : i \in 1..Len(s)}

SetMin(S) == CHOOSE x \in S : \A y \in S : x <= y
SetMax(S) == CHOOSE x \in S : \A y \in S : y <= x

(***************************************************************************)
(* bytes.decode("utf-8"), strict.                                          *)
(***************************************************************************)
IsCont(b) == b \in 128..191

\* Bytes of the character a lead byte starts; 0 for a byte that starts none.
Utf8Need(b) ==
  IF b <= 127 THEN 1
  ELSE IF b \in 194..223 THEN 2
  ELSE IF b \in 224..239 THEN 3
  ELSE IF b \in 240..244 THEN 4
  ELSE 0

\* The second byte's range excludes overlong forms, surrogates and > U+10FFFF.
Utf8SecondOk(b1, b2) ==
  IF b1 = 224 THEN b2 \in 160..191
  ELSE IF b1 = 237 THEN b2 \in 128..159
  ELSE IF b1 = 240 THEN b2 \in 144..191
  ELSE IF b1 = 244 THEN b2 \in 128..143
  ELSE IsCont(b2)

Utf8HeadOk(bs) ==
  LET n == Utf8Need(bs[1])
  IN  /\ n > 0
      /\ Len(bs) >= n
      /\ n >= 2 => Utf8SecondOk(bs[1], bs[2])
      /\ \A i \in 3..n : IsCont(bs[i])

Utf8HeadPoint(bs) ==
  LET n == Utf8Need(bs[1])
  IN  IF n = 1 THEN bs[1]
      ELSE IF n = 2 THEN (bs[1] - 192) * 64 + (bs[2] - 128)
      ELSE IF n = 3 THEN (bs[1] - 224) * 4096 + (bs[2] - 128) * 64 + (bs[3] - 128)
      ELSE (bs[1] - 240) * 262144 + (bs[2] - 128) * 4096
             + (bs[3] - 128) * 64 + (bs[4] - 128)

RECURSIVE Utf8Valid(_)
Utf8Valid(bs) ==
  \/ bs = <<>>
  \/ /\ Utf8HeadOk(bs)
     /\ Utf8Valid(SubSeq(bs, Utf8Need(bs[1]) + 1, Len(bs)))

\* Defined for valid input.
RECURSIVE Utf8Decode(_)
Utf8Decode(bs) ==
  IF bs = <<>> THEN <<>>
  ELSE <<Utf8HeadPoint(bs)>> \o Utf8Decode(SubSeq(bs, Utf8Need(bs[1]) + 1, Len(bs)))

(***************************************************************************)
(* str.strip(): the characters for which str.isspace() holds are removed   *)
(* from both ends.                                                         *)
(***************************************************************************)
IsSpace(cp) ==
  \/ cp \in 9..13
  \/ cp \in 28..32
  \/ cp \in {133, 160, 5760}
  \/ cp \in 8192..8202
  \/ cp \in {8232, 8233, 8239, 8287, 12288}

Strip(s) ==
  LET keep == {i \in 1..Len(s) : ~IsSpace(s[i])}
  IN  IF keep = {} THEN <<>> ELSE SubSeq(s, SetMin(keep), SetMax(keep))

(***************************************************************************)
(* file_search.py                                                          *)
(***************************************************************************)
\* Iterating a text file: each line runs up to and including its '\n'; a
\* last line without one is a line too.
RECURSIVE FileLines(_)
FileLines(text) ==
  IF text = <<>> THEN <<>>
  ELSE LET nl  == {i \in 1..Len(text) : text[i] = 10}
           cut == IF nl = {} THEN Len(text) ELSE SetMin(nl)
       IN  <<SubSeq(text, 1, cut)>> \o FileLines(SubSeq(text, cut + 1, Len(text)))

\* open() or the read fails: load_file raises SystemExit.
LoadFails(f) == f = NoFile

\* A load_file that keeps the lines as read: [line for line in file if line.strip()]
load_file_unstripped(f) ==
  LET lines == FileLines(f)
      NonBlank(l) == Strip(l) # <<>>
  IN  SelectSeq(lines, NonBlank)

\* A load_file that keeps the blank lines: [line.strip() for line in file]
load_file_keeps_blank(f) ==
  LET lines == FileLines(f)
  IN  [i \in 1..Len(lines) |-> Strip(lines[i])]

\* [line.strip() for line in file if line.strip()]
load_file(f) ==
  LET lines == FileLines(f)
      NonBlank(l) == Strip(l) # <<>>
      kept == SelectSeq(lines, NonBlank)
  IN  [i \in 1..Len(kept) |-> Strip(kept[i])]

\* set(load_file(path))
LoadSet(f) == Range(load_file(f))

IsSubstring(q, l) ==
  \E i \in 1..(Len(l) - Len(q) + 1) : SubSeq(l, i, i + Len(q) - 1) = q

\* A search_string that matches inside lines: any(query in line for line in data)
search_string_substring(dataset, query) == \E l \in dataset : IsSubstring(query, l)

\* query in data
search_string(dataset, query) == query \in dataset

(***************************************************************************)
(* server.py: handle_client                                                *)
(***************************************************************************)
EXISTS == "STRING EXISTS\n"
NOT_FOUND == "STRING NOT FOUND\n"
TOO_LARGE == "QUERY TOO LARGE\n"
INVALID_ENCODING == "INVALID ENCODING\n"
Responses == {EXISTS, NOT_FOUND, TOO_LARGE, INVALID_ENCODING}

\* What can go wrong on the connection: recv or sendall raising
\* ConnectionResetError/BrokenPipeError ("reset") or another OSError ("error").
Faults == {"none", "recv_reset", "recv_error", "send_reset", "send_error",
           "shutdown_error", "close_error"}

\* conn.recv(bufsize) with `arrived` bytes of the client's payload in the
\* socket buffer: at most bufsize of them; nothing when bufsize is 0.
Recv(payload, arrived, bufsize) ==
  SubSeq(payload, 1, IF arrived < bufsize THEN arrived ELSE bufsize)

\* recv blocks until a byte has arrived or the peer has closed its write side.
Arrivals(payload) == IF payload = <<>> THEN {0} ELSE 1..Len(payload)

\* raw_bytes.decode("utf-8").strip()
Query(raw) == Strip(Utf8Decode(raw))

\* The checks with a decode failure answered like a blank query.
Branch_decode_error_as_blank(raw, maxp) ==
  IF raw = <<>> THEN 49
  ELSE IF Len(raw) > maxp THEN 53
  ELSE IF ~Utf8Valid(raw) THEN 66
  ELSE IF Len(Query(raw)) = 0 THEN 66
  ELSE IF Len(Query(raw)) > maxp THEN 70
  ELSE 76

\* The checks without the one for a query that is empty after trimming.
Branch_no_blank_check(raw, maxp) ==
  IF raw = <<>> THEN 49
  ELSE IF Len(raw) > maxp THEN 53
  ELSE IF ~Utf8Valid(raw) THEN 62
  ELSE IF Len(Query(raw)) > maxp THEN 70
  ELSE 76

\* The checks with the size compared after decoding and trimming only.
Branch_size_after_trim(raw, maxp) ==
  IF raw = <<>> THEN 49
  ELSE IF ~Utf8Valid(raw) THEN 62
  ELSE IF Len(Query(raw)) = 0 THEN 66
  ELSE IF Len(Query(raw)) > maxp THEN 70
  ELSE 76

\* The checks with the raw size compared with the buffer size of recv.
Branch_raw_limit_plus_one(raw, maxp) ==
  IF raw = <<>> THEN 49
  ELSE IF Len(raw) > maxp + 1 THEN 53
  ELSE IF ~Utf8Valid(raw) THEN 62
  ELSE IF Len(Query(raw)) = 0 THEN 66
  ELSE IF Len(Query(raw)) > maxp THEN 70
  ELSE 76

\* The source line of the sendall the checks of lines 48-71 end at, or 76
\* when the request goes on to the lookup.
Branch(raw, maxp) ==
  IF raw = <<>> THEN 49
  ELSE IF Len(raw) > maxp THEN 53
  ELSE IF ~Utf8Valid(raw) THEN 62
  ELSE IF Len(Query(raw)) = 0 THEN 66
  ELSE IF Len(Query(raw)) > maxp THEN 70
  ELSE 76

\* A handler that reloads the file in either mode.
DataView_always_reload(reread, cached, f) == LoadSet(f)

\* A handler that uses self.data in either mode.
DataView_always_cached(reread, cached, f) == cached

\* set(load_file(self.file_path)) if self.reread_on_query else self.data
DataView(reread, cached, f) == IF reread THEN LoadSet(f) ELSE cached

\* The response line each branch sends.
ResponseOf(branch, raw, dataset) ==
  IF branch \in {49, 66} THEN NOT_FOUND
  ELSE IF branch \in {53, 70} THEN TOO_LARGE
  ELSE IF branch = 62 THEN INVALID_ENCODING
  ELSE IF search_string(dataset, Query(raw)) THEN EXISTS ELSE NOT_FOUND

\* A reset clause whose message leaves the peer address out.
LogFields_reset_anonymous(e) ==
  CASE e = "log_info" -> {"query", "peer", "elapsed"}
    [] e = "log_reset" -> {}
    [] e = "log_unexpected" -> {"error"}
    [] OTHER -> {}

\* What the message of each logging call carries: the info line has the
\* query, the peer address and the elapsed time, the reset line has the peer
\* address, the line of the general except clause has only the exception.
LogFields(e) ==
  CASE e = "log_info" -> {"query", "peer", "elapsed"}
    [] e = "log_reset" -> {"peer"}
    [] e = "log_unexpected" -> {"error"}
    [] OTHER -> {}

\* finally: conn.shutdown(SHUT_WR) in a try of its own, then conn.close().
Teardown == <<"shutdown", "close">>

\* Whether the finally clause raises: an exception of conn.shutdown is
\* passed over, conn.close() is called outside that try and its OSError
\* leaves handle_client.
CloseRaises(fault) == fault = "close_error"

\* One run of handle_client from the return of recv to the end of finally,
\* as the record the connection is left with.
Handled(payload, arrived, fault, maxp, reread, cached, f) ==
  LET raw    == Recv(payload, arrived, maxp + 1)
      branch == Branch(raw, maxp)
      base   == [st |-> "done", sent |-> payload, raw |-> <<>>, branch |-> 0,
                 fault |-> fault, out |-> <<>>, ev |-> <<>>, raised |-> FALSE,
                 view |-> {}]
  IN  IF maxp + 1 < 0
      THEN \* ValueError: negative buffersize in recv
           [base EXCEPT !.fault = "none",
                        !.ev = <<"log_unexpected">> \o Teardown]
      ELSE IF fault = "recv_reset"
      THEN [base EXCEPT !.ev = <<"log_reset">> \o Teardown]
      ELSE IF fault = "recv_error"
      THEN [base EXCEPT !.ev = <<"log_unexpected">> \o Teardown]
      ELSE IF branch = 76 /\ reread /\ LoadFails(f)
      THEN \* SystemExit is no Exception: only the finally clause runs
           [base EXCEPT !.raw = raw, !.branch = branch, !.fault = "none",
                        !.ev = <<"recv", "load">> \o Teardown,
                        !.raised = TRUE]
      ELSE LET load == (IF branch = 76 /\ reread THEN <<"load">> ELSE <<>>)
                       \o (IF branch = 76 THEN <<"lookup">> ELSE <<>>)
               view == IF branch = 76 THEN DataView(reread, cached, f) ELSE {}
               resp == ResponseOf(branch, raw, view)
           IN  IF fault = "send_reset"
               THEN [base EXCEPT !.raw = raw, !.branch = branch, !.view = view,
                                 !.ev = <<"recv">> \o load \o <<"log_reset">> \o Teardown]
               ELSE IF fault = "send_error"
               THEN [base EXCEPT !.raw = raw, !.branch = branch, !.view = view,
                                 !.ev = <<"recv">> \o load \o <<"log_unexpected">> \o Teardown]
               ELSE [base EXCEPT !.raw = raw, !.branch = branch, !.view = view,
                                 !.raised = CloseRaises(fault),
                                 !.out = <<resp>>,
                                 !.ev = <<"recv">> \o load \o <<"send">>
                                        \o (IF branch = 76 THEN <<"log_info">> ELSE <<>>)
                                        \o Teardown]

(***************************************************************************)
(* config.py and __init__                                                  *)
(***************************************************************************)
\* "=" not in line
HasEquals(line) == 61 \in Range(line)

\* if not line or line.startswith("#") or "=" not in line: continue
Skipped(line) == line = <<>> \/ line[1] = 35 \/ ~HasEquals(line)

\* A read_config that splits at the last '=': line.rsplit("=", 1)
SplitAt_last(line) == SetMax({i \in 1..Len(line) : line[i] = 61})

\* line.split("=", 1): where the line is cut, its first '='.
SplitAt(line) == SetMin({i \in 1..Len(line) : line[i] = 61})

\* config[key] = value, the dict as a set of <<key, value>> pairs.
Put(cfg, key, value) == {p \in cfg : p[1] # key} \cup {<<key, value>>}

\* The loop of read_config over the lines of the file.
RECURSIVE ConfigFrom(_, _)
ConfigFrom(lines, cfg) ==
  IF lines = <<>> THEN cfg
  ELSE LET line == Strip(Head(lines))
       IN  IF Skipped(line) THEN ConfigFrom(Tail(lines), cfg)
           ELSE LET at == SplitAt(line)
                IN  ConfigFrom(Tail(lines),
                               Put(cfg, Strip(SubSeq(line, 1, at - 1)),
                                        Strip(SubSeq(line, at + 1, Len(line)))))

\* read_config(path): what it raises and the dict it returns.
read_config(f) ==
  IF f = NoFile THEN [raised |-> "FileNotFoundError", map |-> {}]
  ELSE [raised |-> "none", map |-> ConfigFrom(FileLines(f), {})]

\* key in config, config[key]
Has(cfg, key) == \E p \in cfg : p[1] = key
Get(cfg, key) == (CHOOSE p \in cfg : p[1] = key)[2]

\* The keys host and port, which __init__ does not read.
K_host == <<104, 111, 115, 116>>
K_port == <<112, 111, 114, 116>>

\* The keys __init__ reads, and the texts "true" and "False".
K_linuxpath == <<108, 105, 110, 117, 120, 112, 97, 116, 104>>
K_reread_on_query == <<114, 101, 114, 101, 97, 100, 95, 111, 110, 95, 113, 117, 101, 114, 121>>
K_max_payload == <<109, 97, 120, 95, 112, 97, 121, 108, 111, 97, 100>>
K_use_ssl == <<117, 115, 101, 95, 115, 115, 108>>
TextTrue == <<116, 114, 117, 101>>
TextFalse == <<70, 97, 108, 115, 101>>

\* str.lower
lower(s) == [i \in 1..Len(s) |-> IF s[i] \in 65..90 THEN s[i] + 32 ELSE s[i]]

\* int(text), for a text of signs, digits and letters: a sign at most, then
\* digits; anything else raises ValueError.
IntDigits(v) == IF v # <<>> /\ v[1] \in {43, 45} THEN Tail(v) ELSE v
IsIntLiteral(v) ==
  IntDigits(v) # <<>> /\ \A i \in 1..Len(IntDigits(v)) : IntDigits(v)[i] \in 48..57

RECURSIVE NatOf(_)
NatOf(d) == IF d = <<>> THEN 0 ELSE 10 * NatOf(SubSeq(d, 1, Len(d) - 1)) + (d[Len(d)] - 48)

IntOf(v) == IF v[1] = 45 THEN 0 - NatOf(IntDigits(v)) ELSE NatOf(IntDigits(v))

\* The defaults of __init__'s host and port parameters.
DefaultHost == <<48, 46, 48, 46, 48, 46, 48>>
DefaultPort == 44445

\* The one dataset file of the file system, and what open(path) finds.
DatasetPath == <<100>>
ReadPath(path, f) == IF path = DatasetPath THEN f ELSE NoFile

\* __init__ on a configuration file and a dataset file: the exception it
\* raises, or the fields it sets.
Constructed(cfgfile, f) ==
  LET rc     == read_config(cfgfile)
      cfg    == rc.map
      path   == IF Has(cfg, K_linuxpath) THEN Get(cfg, K_linuxpath) ELSE <<>>
      reread == lower(IF Has(cfg, K_reread_on_query)
                      THEN Get(cfg, K_reread_on_query) ELSE TextFalse) = TextTrue
      fields == [exc |-> "none", msg |-> "", reread_on_query |-> reread,
                 max_payload |-> 0, use_ssl |-> FALSE, data |-> {},
                 file_path |-> path]
  IN  IF rc.raised = "FileNotFoundError"
      THEN [fields EXCEPT !.exc = "SystemExit", !.msg = "Config file not found"]
      ELSE IF path = <<>>
      THEN [fields EXCEPT !.exc = "SystemExit", !.msg = "Missing 'linuxpath'"]
      ELSE IF Has(cfg, K_max_payload) /\ ~IsIntLiteral(Get(cfg, K_max_payload))
      THEN [fields EXCEPT !.exc = "ValueError", !.msg = "invalid literal for int()"]
      ELSE IF ~reread /\ LoadFails(ReadPath(path, f))
      THEN [fields EXCEPT !.exc = "SystemExit", !.msg = "Failed to load file"]
      ELSE [fields EXCEPT
              !.max_payload = IF Has(cfg, K_max_payload)
                              THEN IntOf(Get(cfg, K_max_payload)) ELSE 1024,
              !.use_ssl = Has(cfg, K_use_ssl) /\ Get(cfg, K_use_ssl) # <<>>,
              !.data = IF reread THEN {} ELSE LoadSet(ReadPath(path, f))]

(***************************************************************************)
(* The server, the dataset file and the connections.                       *)
(***************************************************************************)
VARIABLES
  reread_on_query,  \* self.reread_on_query
  max_payload,      \* self.max_payload
  data,             \* self.data
  running,          \* self.running
  sock,             \* self.sock: "unset", "listening" or "closed"
  spc,              \* where start() is: "new", "loop", "handshake", "returned", "failed";
                    \* "exited" when the process that called it has ended
  accepted,         \* the accept loop's local conn: the last connection accepted
  file,             \* the dataset file's text now, or NoFile
  conn,             \* per connection: the client's side and its handler thread
  use_ssl,          \* self.use_ssl
  start_exit,       \* the SystemExit start() raised, or NoExit
  stop_result,      \* how the last call of stop() ended: "none", "returned", "raised"
  config_file,      \* the configuration file's text, or NoFile
  config,           \* what read_config did in __init__: self.config, or its exception
  init_result,      \* whether __init__ has run, and the exception it raised
  host,             \* self.host
  port,             \* self.port
  file_path,        \* self.file_path
  slog              \* what the accept loop has logged

\* What only __init__ assigns, and its inputs.
bootvars == <<config_file, config, init_result, host, file_path>>

vars == <<reread_on_query, max_payload, data, running, sock, spc, accepted, file, conn,
          use_ssl, start_exit, stop_result, config_file, config, init_result,
          host, port, file_path, slog>>

Conns == 1..MaxConns

\* int(self.config.get("max_payload", 1024)): any integer the file gives.
ConfigMaxPayloads == -2..MaxPayloadCfg

\* The system specification's inputs: the file is missing, empty, "a\n" or
\* "a\nA\n"; a client sends "a" or "A"; max_payload is the largest value.
SysFiles == {NoFile, <<>>, <<97, 10>>, <<97, 10, 65, 10>>}
SysPayloads == {<<97>>, <<65>>}
SysMaxPayloads == {MaxPayloadCfg}

\* Dataset files and payloads of the query specification.
QueryFiles == SeqsUpTo(FileChars, MaxFileLen) \cup {NoFile}
QueryPayloads == SeqsUpTo(PayloadBytes, MaxPayloadLen)

\* st: "none", "queued" (in the backlog), "handshake" (accept() is in its TLS
\* handshake), "refused" (the handshake failed), "running" (its handler
\* thread is blocked in recv), "done" (handle_client has ended) or "killed"
\* (the process ended with the handler in flight).  sent: the client's
\* payload; out: the response lines the client was sent.  The rest is the
\* handler's: raw_bytes, the branch taken, the fault met, its calls in order
\* (ev), whether it raised, and its local data (view).
NoConn == [st |-> "none", sent |-> <<>>, raw |-> <<>>, branch |-> 0,
           fault |-> "none", out |-> <<>>, ev |-> <<>>, raised |-> FALSE,
           view |-> {}]

\* start() has raised nothing.
NoExit == [fault |-> "none", msg |-> ""]

\* read_config has not been called.
NotRead == [raised |-> "none", map |-> {}]

\* __init__ has returned; the configuration text that gave the fields their
\* values is left out, the fields are chosen directly: in cached mode the file was loaded, in reread mode
\* it was not opened.
InitWith(F, M, T, P) ==
  /\ host = DefaultHost
  /\ port \in P
  /\ file_path = DatasetPath
  /\ slog = <<>>
  /\ config_file = <<>>
  /\ config = NotRead
  /\ init_result = [done |-> TRUE, exc |-> "none", msg |-> ""]
  /\ reread_on_query \in BOOLEAN
  /\ use_ssl \in T
  /\ start_exit = NoExit
  /\ stop_result = "none"
  /\ max_payload \in M
  /\ file \in {f \in F : reread_on_query \/ ~LoadFails(f)}
  /\ data = IF reread_on_query THEN {} ELSE LoadSet(file)
  /\ running = FALSE
  /\ sock = "unset"
  /\ spc = "new"
  /\ accepted = 0
  /\ conn = [c \in Conns |-> NoConn]

\* What can fail in start() before its loop: bind or listen raises OSError;
\* with TLS, load_cert_chain does not find the files (FileNotFoundError, an
\* OSError) or cannot use what is in them (ssl.SSLError).
StartFaults(tls) ==
  {"bind"} \cup (IF tls THEN {"cert_missing", "cert_invalid"} ELSE {})

\* A start() whose except clauses all raise the same message.
StartExit_one_message(fault) == "Could not start server"

\* The message of the SystemExit that start() raises for a fault: the inner
\* except clause takes ssl.SSLError, the outer one every other OSError.
StartExit(fault) ==
  IF fault = "cert_invalid" THEN "SSL setup failed" ELSE "Could not start server"

\* The port the system gives a socket bound to port 0.
EphemeralPorts == {49152}

\* A start() that takes the socket's port whatever self.port was.
PortAfterBind_always(p, assigned) == assigned

\* if self.port == 0: self.port = self.sock.getsockname()[1]
PortAfterBind(p, assigned) == IF p = 0 THEN assigned ELSE p

\* start() up to the accept loop, on a constructed server; a fault closes
\* the socket (finally) and raises SystemExit.  A fault of bind leaves
\* self.port as it was, the TLS setup comes after the port was taken.
start ==
  /\ init_result.done /\ init_result.exc = "none"
  /\ spc = "new"
  /\ running' = TRUE
  /\ \E assigned \in EphemeralPorts :
       \/ /\ sock' = "listening" /\ spc' = "loop" /\ start_exit' = start_exit
          /\ port' = PortAfterBind(port, assigned)
       \/ \E fault \in StartFaults(use_ssl) :
            /\ sock' = "closed"
            /\ spc' = "failed"
            /\ start_exit' = [fault |-> fault, msg |-> StartExit(fault)]
            /\ port' = IF fault = "bind" THEN port ELSE PortAfterBind(port, assigned)
  /\ UNCHANGED <<reread_on_query, max_payload, data, accepted, file, conn,
                 use_ssl, stop_result, slog, bootvars>>

\* A client connects and sends its payload; the connection waits in the
\* listening socket's backlog.
Connect(c, P) ==
  /\ sock = "listening"
  /\ conn[c].st = "none"
  /\ \E payload \in P : conn' = [conn EXCEPT ![c] = [NoConn EXCEPT !.st = "queued", !.sent = payload]]
  /\ UNCHANGED <<reread_on_query, max_payload, data, running, sock, spc, accepted, file,
                 use_ssl, start_exit, stop_result, port, slog, bootvars>>

\* A handler that reads the accept loop's conn when it runs, not when it
\* was started (target=lambda: self.handle_client(conn, addr)).
HandlerConn_late_bound(c, latest) == latest

\* The connection a handler thread works on: the one it was started with.
HandlerConn(c, latest) == c

\* An accept loop that joins each handler thread before it accepts again.
LoopWaitsFor_join(handlers) == handlers

\* The handler threads the accept loop waits for before its next accept():
\* none, thread.start() is not followed by a join.
LoopWaitsFor(handlers) == {}

\* The handler threads that have not ended.
Handlers == {d \in Conns : conn[d].st = "running"}

\* Without TLS: conn, addr = self.sock.accept(); Thread(target=
\* self.handle_client, args=(conn, addr), daemon=True).start()
Accept(c) ==
  /\ spc = "loop"
  /\ running
  /\ sock = "listening"
  /\ ~use_ssl
  /\ LoopWaitsFor(Handlers) = {}
  /\ conn[c].st = "queued"
  /\ accepted' = c
  /\ conn' = [conn EXCEPT ![c].st = "running"]
  /\ UNCHANGED <<reread_on_query, max_payload, data, running, sock, spc, file,
                 use_ssl, start_exit, stop_result, port, slog, bootvars>>

\* With TLS self.sock is the wrapped listening socket: its accept() takes
\* the connection from the backlog and then runs the TLS handshake on it,
\* in the accept loop's thread.  The accepted socket has no timeout (the
\* listening socket's timeout is not inherited), so the loop stays in the
\* handshake until the client completes it, fails it or goes away.
AcceptTLS(c) ==
  /\ spc = "loop"
  /\ running
  /\ sock = "listening"
  /\ use_ssl
  /\ LoopWaitsFor(Handlers) = {}
  /\ conn[c].st = "queued"
  /\ accepted' = c
  /\ spc' = "handshake"
  /\ conn' = [conn EXCEPT ![c].st = "handshake"]
  /\ UNCHANGED <<reread_on_query, max_payload, data, running, sock, file,
                 use_ssl, start_exit, stop_result, port, slog, bootvars>>

\* How the handshake inside accept() ends: it completes; it raises
\* ssl.SSLError (protocol error, plaintext, end of file in the handshake);
\* or the peer resets the connection, which raises ConnectionResetError, an
\* OSError that is no ssl.SSLError.
Handshakes == {"ok", "ssl_error", "reset"}

\* The rest of accept() and the loop's except clauses: a completed
\* handshake starts the handler thread; ssl.SSLError is logged and the loop
\* continues; any other OSError is logged if self.running and breaks the
\* loop, and finally closes the listening socket.
Handshake(c, how) ==
  /\ spc = "handshake"
  /\ accepted = c
  /\ conn[c].st = "handshake"
  /\ \/ /\ how = "ok"
        /\ conn' = [conn EXCEPT ![c].st = "running"]
        /\ spc' = "loop"
        /\ sock' = sock
     \/ /\ how = "ssl_error"
        /\ conn' = [conn EXCEPT ![c].st = "refused",
                                ![c].ev = <<"log_handshake_failed">>]
        /\ spc' = "loop"
        /\ sock' = sock
     \/ /\ how = "reset"
        /\ conn' = [conn EXCEPT ![c].st = "refused",
                                ![c].ev = IF running THEN <<"log_accept_failed">>
                                                     ELSE <<>>]
        /\ spc' = "returned"
        /\ sock' = "closed"
  /\ UNCHANGED <<reread_on_query, max_payload, data, running, accepted, file,
                 use_ssl, start_exit, stop_result, port, slog, bootvars>>

\* A handler called in the accept loop itself: its SystemExit ends start().
AfterHandlerRaise_inline(pc) == "failed"

\* What a handler thread's exception does to the thread that runs start():
\* nothing, the handler has a thread of its own.
AfterHandlerRaise(pc) == pc

\* A handler that keeps the set it reloaded: self.data = set(load_file(...))
DataAfter_stored(cached, h) == IF "load" \in Range(h.ev) /\ ~h.raised THEN h.view ELSE cached

\* self.data after a handler has run: what it was, the handler assigns only
\* its local data.
DataAfter(cached, h) == cached

\* handle_client, from the return of recv on: the thread of connection c
\* reads its connection's bytes, answers on it and closes it.
handle_client_with(c, FS) ==
  /\ conn[c].st = "running"
  /\ LET t == HandlerConn(c, accepted)
     IN  \E arrived \in Arrivals(conn[t].sent), fault \in FS :
           LET h == Handled(conn[t].sent, arrived, fault, max_payload,
                            reread_on_query, data, file)
           IN  /\ conn' = [conn EXCEPT
                     ![c] = [h EXCEPT !.sent = conn[c].sent, !.out = conn[c].out],
                     ![t].out = conn[t].out \o h.out]
               /\ spc' = IF h.raised THEN AfterHandlerRaise(spc) ELSE spc
               /\ data' = DataAfter(data, h)
  /\ UNCHANGED <<reread_on_query, max_payload, running, sock, accepted, file,
                 use_ssl, start_exit, stop_result, port, slog, bootvars>>

\* except socket.timeout: continue.  The loop is where it was.
AcceptTimeout ==
  /\ spc = "loop"
  /\ running
  /\ sock = "listening"
  /\ UNCHANGED vars

\* An accept loop that logs every accept failure.
LogsAcceptFailure_always(r) == TRUE

\* if self.running: logging.error(f"Accept failed: {e}")
LogsAcceptFailure(r) == r

\* An accept loop whose break leaves start() without the finally clause.
AcceptError_without_finally ==
  /\ spc = "loop"
  /\ slog' = IF running THEN Append(slog, "accept_failed") ELSE slog
  /\ spc' = "returned"
  /\ UNCHANGED <<reread_on_query, max_payload, data, running, sock, accepted, file, conn,
                 use_ssl, start_exit, stop_result, port, bootvars>>

\* accept() raises an OSError that is neither a timeout nor an ssl.SSLError
\* (the process is out of descriptors, or stop() has closed the socket
\* after the loop tested self.running): it is logged if self.running is
\* set, the loop breaks, finally closes the socket and start() returns.
AcceptError ==
  /\ spc = "loop"
  /\ slog' = IF LogsAcceptFailure(running) THEN Append(slog, "accept_failed") ELSE slog
  /\ spc' = "returned"
  /\ sock' = "closed"
  /\ UNCHANGED <<reread_on_query, max_payload, data, running, accepted, file, conn,
                 use_ssl, start_exit, stop_result, port, bootvars>>

\* The accept loop ends (running is false, or accept fails on the closed
\* socket); finally: self.sock.close().
LoopExit ==
  /\ spc = "loop"
  /\ ~running \/ sock = "closed"
  /\ sock' = "closed"
  /\ spc' = "returned"
  /\ UNCHANGED <<reread_on_query, max_payload, data, running, accepted, file, conn,
                 use_ssl, start_exit, stop_result, port, slog, bootvars>>

\* A stop() that also closes the connections of the handlers in flight.
stop_closing_connections ==
  /\ running' = FALSE
  /\ sock' = IF sock = "unset" THEN "unset" ELSE "closed"
  /\ stop_result' = IF sock = "unset" THEN "raised" ELSE "returned"
  /\ conn' = [c \in Conns |->
               IF conn[c].st = "running"
               THEN [conn[c] EXCEPT !.st = "done", !.ev = <<"close">>]
               ELSE conn[c]]
  /\ UNCHANGED <<reread_on_query, max_payload, data, spc, accepted, file,
                 use_ssl, start_exit, port, slog, bootvars>>

\* stop(), from any thread at any time: it clears self.running, shuts the
\* listening socket down (errors ignored) and closes it.  Before start() has
\* assigned self.sock, the close in the finally clause raises
\* AttributeError.
stop ==
  /\ running' = FALSE
  /\ sock' = IF sock = "unset" THEN "unset" ELSE "closed"
  /\ stop_result' = IF sock = "unset" THEN "raised" ELSE "returned"
  /\ UNCHANGED <<reread_on_query, max_payload, data, spc, accepted, file, conn,
                 use_ssl, start_exit, port, slog, bootvars>>

handle_client(c) == handle_client_with(c, Faults)

\* Somebody rewrites, truncates or removes the dataset file.
ModifyFile(F) ==
  /\ file' \in F \ {file}
  /\ UNCHANGED <<reread_on_query, max_payload, data, running, sock, spc, accepted, conn,
                 use_ssl, start_exit, stop_result, port, slog, bootvars>>

\* The host and port arguments of __init__: the defaults, or port 0 as the
\* tests pass it.
HostArgs == {DefaultHost}
PortArgs == {0, DefaultPort}

\* StringSearchServer(host, port, config_path): read_config, then the
\* fields; the first failure raises.
__init__ ==
  /\ ~init_result.done
  /\ LET r == Constructed(config_file, file)
     IN  /\ config' = read_config(config_file)
         /\ init_result' = [done |-> TRUE, exc |-> r.exc, msg |-> r.msg]
         /\ IF r.exc = "none"
            THEN /\ \E h \in HostArgs, p \in PortArgs : host' = h /\ port' = p
                 /\ file_path' = r.file_path
                 /\ reread_on_query' = r.reread_on_query
                 /\ max_payload' = r.max_payload
                 /\ use_ssl' = r.use_ssl
                 /\ data' = r.data
            ELSE UNCHANGED <<host, port, file_path, reread_on_query, max_payload,
                             use_ssl, data>>
  /\ UNCHANGED <<running, sock, spc, accepted, file, conn, start_exit, stop_result,
                 config_file, slog>>

\* The faults of recv and sendall.
SysFaults == {"none", "recv_reset", "recv_error", "send_reset", "send_error"}

\* The system specification: no TLS, no fault in the teardown, stop() is called once start() has
\* created the socket.
Init == InitWith(SysFiles, SysMaxPayloads, {FALSE}, {DefaultPort})

Next ==
  \/ start
  \/ \E c \in Conns : Connect(c, SysPayloads)
  \/ \E c \in Conns : Accept(c)
  \/ \E c \in Conns : handle_client_with(c, SysFaults)
  \/ LoopExit
  \/ sock # "unset" /\ stop
  \/ ModifyFile(SysFiles)

Spec == Init /\ [][Next]_vars

\* One connection, every payload and every dataset file up to the bounds.
QueryInit == InitWith(QueryFiles, ConfigMaxPayloads, {FALSE}, {DefaultPort})

QueryNext ==
  \/ start
  \/ Connect(1, QueryPayloads)
  \/ Accept(1)
  \/ handle_client(1)

QuerySpec == QueryInit /\ [][QueryNext]_vars

\* The life cycle: with and without TLS, stop() at any time, one dataset
\* file and one payload; a handler runs without a fault or its recv meets a
\* reset.
LifeFiles == {<<97, 10>>}
LifePayloads == {<<97>>}
LifeFaults == {"none", "recv_reset"}

LifeInit == InitWith(LifeFiles, SysMaxPayloads, BOOLEAN, PortArgs)

LifeNext ==
  \/ start
  \/ \E c \in Conns : Connect(c, LifePayloads)
  \/ \E c \in Conns : Accept(c)
  \/ \E c \in Conns : AcceptTLS(c)
  \/ \E c \in Conns, how \in Handshakes : Handshake(c, how)
  \/ \E c \in Conns : handle_client_with(c, LifeFaults)
  \/ AcceptTimeout
  \/ AcceptError
  \/ LoopExit
  \/ stop

LifeSpec == LifeInit /\ [][LifeNext]_vars

\* Construction.  The configuration file is missing, or any text of up to
\* MaxCfgLen characters of "k=# \n", or made of the lines below; the
\* dataset file is missing or holds "a\n".
ConfigChars == {107, 61, 35, 32, 10}

Line(key, value) == key \o <<61>> \o value \o <<10>>

PathLines == {<<>>, Line(K_linuxpath, DatasetPath), Line(K_linuxpath, <<120>>),
              Line(K_linuxpath, <<>>)}
RereadLines == {<<>>, Line(K_reread_on_query, <<84, 114, 117, 101>>),
                Line(K_reread_on_query, TextFalse)}
MaxPayloadLines == {<<>>, Line(K_max_payload, <<50>>), Line(K_max_payload, <<45, 49>>),
                    Line(K_max_payload, <<97, 98>>)}
SslLines == {<<>>, Line(K_use_ssl, <<84, 114, 117, 101>>), Line(K_use_ssl, TextFalse)}
\* host=h and port=8080, or neither
EndpointLines == {<<>>, Line(K_host, <<104>>) \o Line(K_port, <<56, 48, 56, 48>>)}

ConfigFiles ==
  {NoFile} \cup SeqsUpTo(ConfigChars, MaxCfgLen)
           \cup {p \o r \o m \o u \o e : p \in PathLines, r \in RereadLines,
                                          m \in MaxPayloadLines, u \in SslLines,
                                          e \in EndpointLines}

ConfigInitWith(CF, DF) ==
  /\ config_file \in CF
  /\ file \in DF
  /\ config = NotRead
  /\ init_result = [done |-> FALSE, exc |-> "none", msg |-> ""]
  /\ host = <<>>
  /\ port = 0
  /\ file_path = <<>>
  /\ slog = <<>>
  /\ reread_on_query = FALSE
  /\ max_payload = 0
  /\ use_ssl = FALSE
  /\ data = {}
  /\ running = FALSE
  /\ sock = "unset"
  /\ spc = "new"
  /\ accepted = 0
  /\ conn = [c \in Conns |-> NoConn]
  /\ start_exit = NoExit
  /\ stop_result = "none"

ConfigInit == ConfigInitWith(ConfigFiles, {NoFile, <<97, 10>>})

ConfigNext == __init__ \/ start

ConfigSpec == ConfigInit /\ [][ConfigNext]_vars

\* Construction over the dataset files: the configuration names the dataset
\* file, in cached or in reread mode; the dataset file is missing or any
\* text of up to MaxLoadLen characters of "aA \n".
LoadConfigs == {Line(K_linuxpath, DatasetPath) \o r : r \in RereadLines}
LoadFiles == SeqsUpTo(FileChars, MaxLoadLen) \cup {NoFile}

LoadInit == ConfigInitWith(LoadConfigs, LoadFiles)

LoadNext == __init__

LoadSpec == LoadInit /\ [][LoadNext]_vars

\* From construction to the queries: the configuration names the dataset
\* file, in cached or in reread mode; the dataset file is any of the system
\* specification's and changes at any time; one client.
ServeInit == ConfigInitWith(LoadConfigs, SysFiles)

ServeNext ==
  \/ __init__
  \/ start
  \/ Connect(1, SysPayloads)
  \/ Accept(1)
  \/ handle_client_with(1, SysFaults)
  \/ ModifyFile(SysFiles)

ServeSpec == ServeInit /\ [][ServeNext]_vars

\* The threads the interpreter joins before the process ends: the handler
\* threads are started with daemon=True, so none of them.
JoinedAtExit(handlers) == {}

\* main.py: server.start() is the script's last statement.  When start()
\* has returned or raised, the main thread ends and the interpreter exits:
\* the daemon threads end where they are and the system closes their
\* sockets.
ProcessExit ==
  /\ spc \in {"returned", "failed"}
  /\ JoinedAtExit(Handlers) = {}
  /\ spc' = "exited"
  /\ conn' = [c \in Conns |->
               IF conn[c].st = "running" THEN [conn[c] EXCEPT !.st = "killed"]
                                         ELSE conn[c]]
  /\ UNCHANGED <<reread_on_query, max_payload, data, running, sock, accepted, file,
                 use_ssl, start_exit, stop_result, port, slog, bootvars>>

\* The server run from the entry point: built with the default host and
\* port, start() on the main thread, nobody calls stop().
MainInit == InitWith(LifeFiles, SysMaxPayloads, BOOLEAN, {DefaultPort})

MainNext ==
  \/ start
  \/ \E c \in Conns : Connect(c, LifePayloads)
  \/ \E c \in Conns : Accept(c)
  \/ \E c \in Conns : AcceptTLS(c)
  \/ \E c \in Conns, how \in Handshakes : Handshake(c, how)
  \/ \E c \in Conns : handle_client_with(c, LifeFaults)
  \/ AcceptTimeout
  \/ AcceptError
  \/ ProcessExit

MainSpec == MainInit /\ [][MainNext]_vars

\* The queries of several clients, with and without TLS: the dataset file
\* is "a\n" or empty and changes at any time; a client sends "a", "A",
\* "a a" (more than max_payload bytes, of which any number has arrived when
\* recv returns) or the first byte of a two-byte character alone; no fault
\* on the connections.
IndepFiles == {<<>>, <<97, 10>>}
IndepPayloads == {<<97>>, <<65>>, <<97, 32, 97>>, <<194>>}
IndepFaults == {"none"}

IndepInit == InitWith(IndepFiles, SysMaxPayloads, BOOLEAN, {DefaultPort})

IndepNext ==
  \/ start
  \/ \E c \in Conns : Connect(c, IndepPayloads)
  \/ \E c \in Conns : Accept(c)
  \/ \E c \in Conns : AcceptTLS(c)
  \/ \E c \in Conns, how \in Handshakes : Handshake(c, how)
  \/ \E c \in Conns : handle_client_with(c, IndepFaults)
  \/ ModifyFile(IndepFiles)

IndepSpec == IndepInit /\ [][IndepNext]_vars

\* The accept loop's thread is scheduled, and accept() returns or times out
\* after one second, so a loop that can end does end.  Nothing is assumed
\* of the clients.
LiveSpec == LifeSpec /\ WF_vars(LoopExit)

(***************************************************************************)
(* The properties.                                                         *)
(***************************************************************************)
\* The trimmed non-blank lines of a dataset file.
DatasetLines(f) ==
  {Strip(FileLines(f)[i]) : i \in 1..Len(FileLines(f))} \ {<<>>}

\* The handler of connection c has ended, its recv returned bytes (or none)
\* and nothing failed afterwards.
Answered(c) ==
  /\ conn[c].st = "done"
  /\ conn[c].ev # <<>> /\ Head(conn[c].ev) = "recv"
  /\ conn[c].fault = "none"
  /\ ~conn[c].raised

\* The received bytes pass the size check and decode to a query that is not
\* empty after trimming.
GoodQuery(c) ==
  /\ conn[c].raw # <<>>
  /\ Len(conn[c].raw) <= max_payload
  /\ Utf8Valid(conn[c].raw)
  /\ Strip(Utf8Decode(conn[c].raw)) # <<>>

\* C1: a payload that passes the size check, decodes and is not empty after
\* trimming is answered STRING EXISTS when its trimmed text equals a trimmed
\* non-blank line of the dataset file, and STRING NOT FOUND otherwise.
C1_LookupAnswer ==
  \A c \in Conns :
    Answered(c) /\ GoodQuery(c) =>
      conn[c].out = << IF \E i \in 1..Len(FileLines(file)) :
                            Strip(FileLines(file)[i]) = Strip(Utf8Decode(conn[c].raw))
                       THEN EXISTS ELSE NOT_FOUND >>

\* A payload that trimming shortens is found in a file whose line trimming
\* shortens too.
C1_Witness ==
  \E c \in Conns :
    /\ Answered(c) /\ GoodQuery(c)
    /\ Len(Strip(Utf8Decode(conn[c].raw))) < Len(conn[c].raw)
    /\ Strip(Utf8Decode(conn[c].raw)) \notin Range(FileLines(file))
    /\ conn[c].out = <<EXISTS>>

ToLower(s) == [i \in 1..Len(s) |-> IF s[i] \in 65..90 THEN s[i] + 32 ELSE s[i]]

\* q is a proper substring (a prefix is one) or a different-case variant of
\* a dataset line, and is no dataset line itself.
NearMiss(q, lines) ==
  /\ q \notin lines
  /\ \E l \in lines : \/ IsSubstring(q, l)
                      \/ ToLower(q) = ToLower(l)

\* C2: a query that is only a proper substring, a prefix or a different-case
\* variant of a dataset line is never answered STRING EXISTS.
C2_ExactMatchOnly ==
  \A c \in Conns :
    /\ conn[c].st = "done"
    /\ GoodQuery(c)
    /\ NearMiss(Strip(Utf8Decode(conn[c].raw)), DatasetLines(file))
    => EXISTS \notin Range(conn[c].out)

\* The query "a" against a file whose only line is "A", answered NOT FOUND.
C2_Witness ==
  \E c \in Conns :
    /\ Answered(c) /\ GoodQuery(c)
    /\ DatasetLines(file) = {<<65>>}
    /\ Strip(Utf8Decode(conn[c].raw)) = <<97>>
    /\ conn[c].out = <<NOT_FOUND>>

\* C3: a payload longer than max_payload is answered QUERY TOO LARGE,
\* however its bytes reach the single recv.
C3_OversizeAlwaysRejected ==
  \A c \in Conns :
    Answered(c) /\ max_payload >= 1 /\ Len(conn[c].sent) > max_payload
      => conn[c].out = <<TOO_LARGE>>

\* C4: received bytes within the size limit that are not valid UTF-8 are
\* answered INVALID ENCODING, and the handler neither reloads the dataset
\* file nor looks the query up.
C4_InvalidEncoding ==
  \A c \in Conns :
    /\ conn[c].st = "done"
    /\ conn[c].raw # <<>>
    /\ Len(conn[c].raw) <= max_payload
    /\ ~Utf8Valid(conn[c].raw)
    => /\ "load" \notin Range(conn[c].ev)
       /\ "lookup" \notin Range(conn[c].ev)
       /\ conn[c].raised => conn[c].fault = "close_error"
       /\ conn[c].fault = "none" => conn[c].out = <<INVALID_ENCODING>>

\* A character cut off after its first byte, in reread mode with the dataset
\* file missing.
C4_Witness ==
  \E c \in Conns :
    /\ Answered(c)
    /\ reread_on_query /\ LoadFails(file)
    /\ conn[c].raw = <<97, 194>>
    /\ conn[c].out = <<INVALID_ENCODING>>

\* The bytes read are none, or decode to a text that is empty after trimming.
BlankRead(c) ==
  \/ conn[c].raw = <<>>
  \/ Utf8Valid(conn[c].raw) /\ Strip(Utf8Decode(conn[c].raw)) = <<>>

NoErrorLogged(c) ==
  /\ "log_reset" \notin Range(conn[c].ev)
  /\ "log_unexpected" \notin Range(conn[c].ev)

C6_OneResponseThenClose ==
  \A c \in Conns :
    /\ conn[c].st = "done"
    /\ conn[c].ev # <<>> /\ Head(conn[c].ev) = "recv"
    /\ conn[c].fault = "none"
    => /\ Len(conn[c].out) = 1
       /\ conn[c].out[1] \in Responses
       /\ Cardinality({i \in 1..Len(conn[c].ev) : conn[c].ev[i] = "recv"}) = 1
       /\ conn[c].ev[Len(conn[c].ev)] = "close"
       /\ ~conn[c].raised

IsPrefix(p, s) == Len(p) <= Len(s) /\ SubSeq(s, 1, Len(p)) = p

\* C7: with the cached dataset, whatever the interleaving of the handlers,
\* each client is sent at most one response, by its own handler, computed
\* from its own bytes: EXISTS exactly when its trimmed query is in the
\* dataset.
C7_NoCrossTalk ==
  ~reread_on_query =>
    \A c \in Conns :
      /\ Len(conn[c].out) <= 1
      /\ conn[c].out # <<>> => conn[c].st = "done"
      /\ conn[c].st = "done" => IsPrefix(conn[c].raw, conn[c].sent)
      /\ Answered(c) /\ GoodQuery(c) =>
           conn[c].out = << IF Strip(Utf8Decode(conn[c].sent)) \in data
                            THEN EXISTS ELSE NOT_FOUND >>

\* Two clients with different queries, one answered EXISTS and the other
\* NOT FOUND.
C7_Witness ==
  /\ ~reread_on_query
  /\ Answered(1) /\ GoodQuery(1) /\ conn[1].out = <<EXISTS>>
  /\ Answered(2) /\ GoodQuery(2) /\ conn[2].out = <<NOT_FOUND>>
  /\ accepted = 1

\* C8: with reread disabled the cached dataset is the file's content at
\* construction, no step changes it, and every lookup is answered from it,
\* whatever has happened to the file since.
C8_CacheFreeze ==
  /\ ~reread_on_query => data = DatasetLines(file)
  /\ [][~reread_on_query =>
          /\ data' = data
          /\ \A c \in Conns :
               conn[c].st = "running" /\ (Answered(c) /\ GoodQuery(c))' =>
                 conn'[c].out = << IF Strip(Utf8Decode(conn'[c].raw)) \in data
                                   THEN EXISTS ELSE NOT_FOUND >>]_vars

\* A query answered EXISTS from the cache while the file is gone or no longer
\* holds the line.
C8_Witness ==
  /\ ~reread_on_query
  /\ \E c \in Conns :
       /\ Answered(c) /\ GoodQuery(c)
       /\ conn[c].out = <<EXISTS>>
       /\ LoadFails(file) \/ Strip(Utf8Decode(conn[c].raw)) \notin DatasetLines(file)

\* C9: with reread enabled every lookup is answered from the dataset file as
\* it is at the step the handler runs.
C9_Freshness ==
  [][reread_on_query =>
       \A c \in Conns :
         conn[c].st = "running" /\ (Answered(c) /\ GoodQuery(c))' =>
           conn'[c].out = << IF Strip(Utf8Decode(conn'[c].raw)) \in DatasetLines(file)
                             THEN EXISTS ELSE NOT_FOUND >>]_vars

\* The same query answered NOT FOUND on one connection and EXISTS on the
\* other: the file changed in between, and each handler loaded its own set.
C9_Witness ==
  /\ reread_on_query
  /\ Answered(1) /\ GoodQuery(1) /\ Answered(2) /\ GoodQuery(2)
  /\ conn[1].raw = conn[2].raw
  /\ conn[1].out = <<NOT_FOUND>> /\ conn[2].out = <<EXISTS>>
  /\ conn[1].view # conn[2].view

\* C10: the step in which a handler's reload fails leaves the accept loop,
\* the running flag, the listening socket and every other connection as
\* they were.
C10_ReloadFailureIsolated ==
  [][\A c \in Conns :
       conn[c].st = "running" /\ conn'[c].st = "done" /\ conn'[c].raised =>
         /\ spc' = spc
         /\ running' = running
         /\ sock' = sock
         /\ \A d \in Conns \ {c} : conn'[d] = conn[d]]_vars

\* One handler's reload has failed; the server is still in its accept loop
\* and the other connection has been answered from the file.
C10_Witness ==
  /\ reread_on_query
  /\ conn[1].st = "done" /\ conn[1].raised
  /\ Answered(2) /\ conn[2].out = <<EXISTS>>
  /\ accepted = 2
  /\ spc = "loop" /\ running /\ sock = "listening"

\* C11: a handler whose reload of the dataset file was attempted (reread
\* mode, the query reached the lookup) and whose connection did not fail
\* writes one of the response lines and does not raise.
C11_ReloadFailureRecovered ==
  \A c \in Conns :
    /\ conn[c].st = "done"
    /\ reread_on_query
    /\ "load" \in Range(conn[c].ev)
    /\ conn[c].fault = "none"
    => /\ ~conn[c].raised
       /\ Len(conn[c].out) = 1
       /\ conn[c].out[1] \in Responses

\* C12: a handler that met a connection fault (a reset, a broken pipe or
\* another I/O error, in recv or in sendall) has logged an error line that
\* carries the peer address, made no further recv or send, and closed its
\* connection as its last call.
C12_FaultLoggedWithPeer ==
  \A c \in Conns :
    conn[c].st = "done" /\ conn[c].fault # "none" =>
      /\ \E i \in 1..Len(conn[c].ev) :
           /\ conn[c].ev[i] \in {"log_reset", "log_unexpected"}
           /\ "peer" \in LogFields(conn[c].ev[i])
           /\ \A k \in (i + 1)..Len(conn[c].ev) : conn[c].ev[k] \notin {"recv", "send"}
      /\ conn[c].ev[Len(conn[c].ev)] = "close"
      /\ conn[c].out = <<>>

\* The accept loop of start() has been entered and not left.
InLoop == spc \in {"loop", "handshake"}

\* A step that takes a connection from the backlog or hands one to a
\* handler thread.
AcceptStep ==
  \E c \in Conns :
    \/ conn[c].st = "queued" /\ conn'[c].st # "queued"
    \/ conn[c].st # "running" /\ conn'[c].st = "running"

\* C13: once stop() has been called while the accept loop runs, the loop
\* eventually ends with start() returned and the listening socket closed,
\* and after start() has returned no connection is accepted or handed to a
\* handler.
C13_StopEndsLoop ==
  /\ (InLoop /\ stop_result = "returned") ~> (spc = "returned" /\ sock = "closed")
  /\ [][spc = "returned" => ~AcceptStep]_vars

\* C14: every call of stop(), whenever it is made, raises nothing and
\* leaves the running flag cleared and the listening socket closed.
C14_StopSafe ==
  [][stop_result' # stop_result =>
       /\ stop_result' = "returned"
       /\ ~running'
       /\ sock' = "closed"]_vars

\* A step of stop() that changed something.
StopStep ==
  \/ stop_result' # stop_result
  \/ running /\ ~running'
  \/ sock = "listening" /\ sock' = "closed" /\ spc' = spc

\* C15: stop() leaves every connection as it is, the accepted ones open,
\* and a handler in flight can still do its recv, answer and close its
\* connection whatever stop() has done to the running flag and the
\* listening socket.
C15_StopLeavesHandlers ==
  /\ [][StopStep => conn' = conn]_vars
  /\ [](\A c \in Conns : conn[c].st = "running" =>
                             ENABLED handle_client_with(c, {"none"}))

C15_Witness ==
  \E c \in Conns :
    /\ stop_result = "returned"
    /\ ~running
    /\ sock = "closed"
    /\ spc = "returned"
    /\ conn[c].st = "running"

\* C16: while the loop is at accept() with the listening socket open, a
\* connection waiting in the backlog can be accepted although another
\* connection's handler has not ended, and every handler that has been
\* started can run, whatever the other handlers do.
C16_AcceptNeverWaits ==
  /\ \A c \in Conns :
       /\ conn[c].st = "queued"
       /\ spc = "loop" /\ running /\ sock = "listening"
       => ENABLED (Accept(c) \/ AcceptTLS(c))
  /\ \A c \in Conns : conn[c].st = "running" => ENABLED handle_client_with(c, {"none"})

C16_Witness ==
  \E c, d \in Conns :
    /\ c # d
    /\ conn[c].st = "running"
    /\ accepted = d
    /\ conn[d].st = "done"
    /\ conn[d].out = <<EXISTS>>

\* C17: with TLS, a handshake that fails, however it fails, is logged as a
\* handshake failure and leaves the accept loop running on the open
\* listening socket.
C17_HandshakeFailureContinues ==
  [][\A c \in Conns :
       use_ssl /\ conn[c].st = "handshake" /\ conn'[c].st = "refused" =>
         /\ "log_handshake_failed" \in Range(conn'[c].ev)
         /\ spc' = "loop"
         /\ sock' = sock]_vars

\* C19: a start() that met a fault in bind, listen or the TLS setup has
\* raised SystemExit with a message, 'SSL setup failed' for an ssl.SSLError,
\* straight from its beginning: the loop was never entered, no connection
\* was accepted, and the socket is closed.
C19_StartFails ==
  /\ [](start_exit.fault # "none" =>
          /\ spc = "failed"
          /\ start_exit.msg \in {"Could not start server", "SSL setup failed"}
          /\ (start_exit.fault = "cert_invalid" => start_exit.msg = "SSL setup failed")
          /\ sock = "closed"
          /\ \A c \in Conns : conn[c].st = "none")
  /\ [][start_exit' # start_exit => spc = "new" /\ spc' = "failed"]_vars
  /\ [][spc = "failed" => spc' = "failed" /\ conn' = conn]_vars

C19_Witness ==
  /\ use_ssl
  /\ spc = "failed"
  /\ start_exit = [fault |-> "cert_invalid", msg |-> "SSL setup failed"]
  /\ sock = "closed"

\* The configuration read by __init__ names a dataset path.
HasPath == Has(config.map, K_linuxpath) /\ Get(config.map, K_linuxpath) # <<>>

\* The configuration read by __init__ asks for cached mode.
CachedMode ==
  ~Has(config.map, K_reread_on_query)
  \/ lower(Get(config.map, K_reread_on_query)) # TextTrue

\* C18: construction ends with SystemExit and no socket when the
\* configuration file is missing ('Config file not found'), when it has no
\* linuxpath key ("Missing 'linuxpath'"), or when in cached mode the dataset
\* file cannot be loaded ('Failed to load file').
C18_ConstructionFails ==
  init_result.done =>
    /\ config.raised = "FileNotFoundError" =>
         /\ init_result.exc = "SystemExit"
         /\ init_result.msg = "Config file not found"
         /\ sock = "unset"
    /\ config.raised = "none" /\ ~Has(config.map, K_linuxpath) =>
         /\ init_result.exc = "SystemExit"
         /\ init_result.msg = "Missing 'linuxpath'"
         /\ sock = "unset"
    /\ /\ config.raised = "none"
       /\ HasPath
       /\ CachedMode
       /\ LoadFails(ReadPath(Get(config.map, K_linuxpath), file))
       => /\ init_result.exc = "SystemExit"
          /\ init_result.msg = "Failed to load file"
          /\ sock = "unset"

\* The trimmed lines of the configuration file that are not skipped.
ConfigLines ==
  LET lines == FileLines(config_file)
  IN  [i \in 1..Len(lines) |-> Strip(lines[i])]

\* Trimmed line t gives key k and value v: cut at an '=' with none before.
Gives(t, k, v) ==
  \E i \in 1..Len(t) :
    /\ t[i] = 61
    /\ \A j \in 1..(i - 1) : t[j] # 61
    /\ k = Strip(SubSeq(t, 1, i - 1))
    /\ v = Strip(SubSeq(t, i + 1, Len(t)))

\* Trimmed line t gives key k some value.
GivesKey(t, k) ==
  \E i \in 1..Len(t) :
    /\ t[i] = 61
    /\ \A j \in 1..(i - 1) : t[j] # 61
    /\ k = Strip(SubSeq(t, 1, i - 1))

\* Line i counts: it is not empty, does not start with '#' and has an '='.
Counts(i) ==
  /\ ConfigLines[i] # <<>>
  /\ ConfigLines[i][1] # 35
  /\ 61 \in Range(ConfigLines[i])

\* C20: read_config raises FileNotFoundError for a missing file; otherwise
\* it returns the mapping in which <<k, v>> occurs exactly when some line
\* that counts gives k and v and no later line that counts gives k another
\* value; each key has one value.
C20_ReadConfig ==
  init_result.done =>
    IF config_file = NoFile
    THEN config.raised = "FileNotFoundError"
    ELSE /\ config.raised = "none"
         /\ \A p \in config.map :
              \E i \in 1..Len(ConfigLines) :
                /\ Counts(i)
                /\ Gives(ConfigLines[i], p[1], p[2])
                /\ \A j \in (i + 1)..Len(ConfigLines) :
                     Counts(j) /\ GivesKey(ConfigLines[j], p[1])
                       => Gives(ConfigLines[j], p[1], p[2])
         /\ \A i \in 1..Len(ConfigLines) :
              Counts(i) => \E p \in config.map : GivesKey(ConfigLines[i], p[1])
         /\ \A p, q \in config.map : p[1] = q[1] => p = q

\* "k==\n": the value holds an '='.
C20_Witness ==
  /\ init_result.done
  /\ config_file = <<107, 61, 61, 10>>
  /\ config.map = {<< <<107>>, <<61>> >>}

\* __init__ has returned without raising.
Built == init_result.done /\ init_result.exc = "none"

\* C21: a constructed server has TLS enabled exactly when the configuration
\* has a use_ssl key whose value, in lower case, is "true", which is how
\* reread_on_query is read; use_ssl=False and a missing key give no TLS.
C21_TlsFlag ==
  Built =>
    /\ use_ssl = (/\ Has(config.map, K_use_ssl)
                  /\ lower(Get(config.map, K_use_ssl)) = TextTrue)
    /\ reread_on_query = (/\ Has(config.map, K_reread_on_query)
                          /\ lower(Get(config.map, K_reread_on_query)) = TextTrue)

\* C22: a handler that reached the lookup has logged one info line, with
\* the query and the peer address and the elapsed time, whether the
\* response was then written or the write failed; a handler that answered
\* before the lookup has logged none.
C22_InfoLogOnLookup ==
  \A c \in Conns :
    conn[c].st = "done" =>
      LET infos == {i \in 1..Len(conn[c].ev) : conn[c].ev[i] = "log_info"}
      IN  /\ "lookup" \in Range(conn[c].ev) =>
               /\ Cardinality(infos) = 1
               /\ {"query", "peer", "elapsed"} \subseteq LogFields("log_info")
          /\ "lookup" \notin Range(conn[c].ev) => infos = {}

\* C23: in cached mode the constructed dataset is the set of the trimmed
\* forms of the file's lines that are not blank; load_file lists these
\* trimmed forms in file order, one for each such line, none empty and none
\* with whitespace at an end; an empty file gives the empty list.
C23_LoadFile ==
  Built /\ ~reread_on_query =>
    LET L     == load_file(file)
        lines == FileLines(file)
        nb    == {i \in 1..Len(lines) : Strip(lines[i]) # <<>>}
    IN  /\ Len(L) = Cardinality(nb)
        /\ \A i \in nb : L[Cardinality({j \in nb : j <= i})] = Strip(lines[i])
        /\ \A k \in 1..Len(L) : L[k] # <<>> /\ Strip(L[k]) = L[k]
        /\ data = {L[k] : k \in 1..Len(L)}
        /\ data = {Strip(lines[i]) : i \in nb}
        /\ (file = <<>> => L = <<>> /\ data = {})

\* "a\n\na": two equal lines around a blank one.
C23_Witness ==
  /\ Built
  /\ ~reread_on_query
  /\ file = <<97, 10, 10, 97>>
  /\ Len(load_file(file)) = 2
  /\ data = {<<97>>}

\* C24: no step of the running server (a handler in either mode, start,
\* stop, the accept loop, a change of the dataset file) changes self.data.
C24_CachedDatasetReadOnly == [][data' = data]_vars

C24_Witness ==
  \E c \in Conns :
    /\ conn[c].st = "done"
    /\ reread_on_query
    /\ conn[c].view # {}
    /\ data = {}
    /\ ~running

\* C25: a handler makes one recv, of at most max_payload + 1 bytes from the
\* front of what the client sent.  Received bytes that number max_payload +
\* 1 are answered QUERY TOO LARGE at the first size check, valid UTF-8 or
\* not, short after trimming or not, with no reload and no lookup; received
\* bytes that number max_payload pass that check and go on to the decoding.
C25_SizeCheckBoundary ==
  \A c \in Conns :
    Answered(c) =>
      /\ Cardinality({i \in 1..Len(conn[c].ev) : conn[c].ev[i] = "recv"}) = 1
      /\ Len(conn[c].raw) <= SetMax({max_payload + 1, 0})
      /\ IsPrefix(conn[c].raw, conn[c].sent)
      /\ conn[c].raw # <<>> /\ Len(conn[c].raw) = max_payload + 1 =>
           /\ conn[c].branch = 53
           /\ conn[c].out = <<TOO_LARGE>>
           /\ "load" \notin Range(conn[c].ev)
           /\ "lookup" \notin Range(conn[c].ev)
      /\ conn[c].raw # <<>> /\ Len(conn[c].raw) = max_payload =>
           /\ conn[c].branch \in {62, 66, 70, 76}
           /\ (conn[c].branch = 62) = ~Utf8Valid(conn[c].raw)

\* " a " with max_payload = 2: three bytes received, one after trimming.
C25_Witness ==
  \E c \in Conns :
    /\ Answered(c)
    /\ Len(conn[c].raw) = max_payload + 1
    /\ Utf8Valid(conn[c].raw)
    /\ Len(Query(conn[c].raw)) = 1
    /\ reread_on_query
    /\ conn[c].out = <<TOO_LARGE>>

\* C26: however a handler ends, its last two calls are the half-close and
\* the close, it closes once, after the response if it wrote one, and a
\* failure of the half-close or of the close does not leave handle_client.
C26_TeardownOnEveryPath ==
  \A c \in Conns :
    conn[c].st = "done" =>
      LET ev == conn[c].ev
          n  == Len(ev)
      IN  /\ n >= 2
          /\ ev[n - 1] = "shutdown"
          /\ ev[n] = "close"
          /\ Cardinality({i \in 1..n : ev[i] = "close"}) = 1
          /\ \A i \in 1..n : ev[i] = "send" => i < n - 1
          /\ conn[c].fault \in {"shutdown_error", "close_error"} => ~conn[c].raised

\* C27: a loop that goes on (after a timeout of accept() or otherwise) logs
\* no accept failure.  When the accept loop ends while the running flag is
\* set, it ends on an accept error, which is logged as an accept failure;
\* when it ends with the flag cleared, nothing is logged; either way the
\* listening socket is closed.
C27_AcceptErrorPolicy ==
  /\ [][spc = "loop" /\ spc' = "returned" =>
          /\ sock' = "closed"
          /\ slog' = IF running THEN Append(slog, "accept_failed") ELSE slog]_vars
  /\ [][spc' # "returned" => slog' = slog]_vars

C27_Witness ==
  /\ spc = "returned"
  /\ running
  /\ slog = <<"accept_failed">>
  /\ sock = "closed"
  /\ \E c \in Conns : conn[c].st = "running"

\* The configuration read by __init__ gives the host and the port.
GivenHost == Get(config.map, K_host)
GivenPort == IntOf(Get(config.map, K_port))

\* C28: a server built from a configuration with host and port keys
\* listens on that host and port; a port of 0 is replaced, once bound, by
\* the port the system assigned, which is not 0.
C28_EndpointFromConfig ==
  Built /\ Has(config.map, K_host) /\ Has(config.map, K_port) =>
    /\ host = GivenHost
    /\ spc = "new" => port = GivenPort
    /\ spc = "loop" => port = IF GivenPort = 0 THEN port ELSE GivenPort
    /\ spc = "loop" => port # 0

\* C29: a constructed server has a dataset path that is not empty and a
\* max_payload above 0, and no server with another max_payload listens.
C29_ConfigInvariant ==
  /\ Built => file_path # <<>> /\ max_payload > 0
  /\ sock = "listening" => max_payload > 0

\* C30: no step of the running server changes host, dataset path, reread
\* flag, max_payload or TLS flag; the port changes only in start(), from 0
\* to the port the system assigned.
C30_ConfigImmutable ==
  [][/\ host' = host
     /\ file_path' = file_path
     /\ reread_on_query' = reread_on_query
     /\ max_payload' = max_payload
     /\ use_ssl' = use_ssl
     /\ port' # port => /\ spc = "new" /\ spc' # "new"
                        /\ port = 0
                        /\ port' # 0]_vars

C30_Witness ==
  /\ port \in EphemeralPorts
  /\ spc = "returned"
  /\ stop_result = "returned"
  /\ \E c \in Conns : conn[c].st = "done" /\ conn[c].out = <<EXISTS>>

\* C31: when recv returns no byte and sendall then raises BrokenPipeError or
\* ConnectionResetError, the handler writes nothing, logs the reset line,
\* which carries the peer address, half-closes and closes the connection,
\* and returns without raising.
C31_ClosedPeerLogged ==
  \A c \in Conns :
    /\ conn[c].st = "done"
    /\ conn[c].ev # <<>> /\ Head(conn[c].ev) = "recv"
    /\ conn[c].raw = <<>>
    /\ conn[c].fault = "send_reset"
    => /\ conn[c].ev = <<"recv", "log_reset", "shutdown", "close">>
       /\ "peer" \in LogFields(conn[c].ev[2])
       /\ conn[c].out = <<>>
       /\ ~conn[c].raised

\* The peer sent nothing and closed; the server's limit is positive.
C31_Witness ==
  \E c \in Conns :
    /\ conn[c].st = "done"
    /\ conn[c].sent = <<>>
    /\ conn[c].raw = <<>>
    /\ conn[c].fault = "send_reset"
    /\ "log_reset" \in Range(conn[c].ev)
    /\ max_payload >= 1

\* C32: no handler ends at the sendall of the second size check (line 70):
\* received bytes that passed the first check and decode as UTF-8 give a
\* trimmed string of at most max_payload characters, and every QUERY TOO
\* LARGE response was sent by the check of the received byte count.
C32_RecheckNeverFires ==
  \A c \in Conns :
    conn[c].st = "done" =>
      /\ conn[c].branch # 70
      /\ conn[c].raw # <<>> /\ Len(conn[c].raw) <= max_payload /\ Utf8Valid(conn[c].raw)
           => Len(Query(conn[c].raw)) <= max_payload
      /\ TOO_LARGE \in Range(conn[c].out)
           => conn[c].branch = 53 /\ Len(conn[c].raw) > max_payload

\* The second check is evaluated at its boundary: max_payload bytes, each a
\* character that trimming keeps.
C32_Witness ==
  \E c \in Conns :
    /\ conn[c].st = "done"
    /\ conn[c].branch = 76
    /\ max_payload = MaxPayloadCfg
    /\ Len(conn[c].raw) = max_payload
    /\ Len(Query(conn[c].raw)) = max_payload

\* C33: once stop() and start() have both been called, in either order, the
\* accept loop ends.  Stated for a server without TLS, where no handshake
\* holds the loop.
C33_StopNeverLost ==
  (~use_ssl /\ stop_result # "none" /\ spc # "new") ~> (spc \notin {"loop", "handshake"})

\* C34: when start() has returned or raised, the listening socket is
\* closed; a listening socket exists only while the accept loop runs.
C34_SocketClosedAfterStart ==
  /\ spc \in {"returned", "failed"} => sock = "closed"
  /\ sock = "listening" => InLoop

\* start() has returned on a fatal accept error, with nobody having called
\* stop(), after it had served a client.
C34_Witness ==
  /\ spc = "returned"
  /\ stop_result = "none"
  /\ running
  /\ sock = "closed"
  /\ slog # <<>>
  /\ \E c \in Conns : conn[c].st = "done" /\ conn[c].out # <<>>

\* C35: a configuration that asks for reread mode and names a dataset path
\* builds a server whatever the dataset file is, and start() can be called
\* on it; self.data of a server in reread mode is the empty set in every
\* state; and a handler of such a server that looks a query up has loaded
\* the file in that step and looked the query up in the set it loaded.
C35_RereadNeverCaches ==
  /\ [](init_result.done /\ HasPath /\ ~CachedMode =>
          /\ init_result.exc = "none"
          /\ reread_on_query
          /\ spc = "new" => ENABLED start)
  /\ [](Built /\ reread_on_query => data = {})
  /\ [][Built /\ reread_on_query =>
          \A c \in Conns :
            conn[c].st = "running" /\ "lookup" \in Range(conn'[c].ev) =>
              /\ "load" \in Range(conn'[c].ev)
              /\ conn'[c].view = LoadSet(file)]_vars

\* A server built in reread mode has answered STRING EXISTS while its
\* stored set is empty and the dataset file is gone again.
C35_Witness ==
  /\ Built /\ HasPath /\ ~CachedMode
  /\ file = NoFile
  /\ data = {}
  /\ conn[1].st = "done"
  /\ conn[1].out = <<EXISTS>>

\* C36: when the process of the entry point has ended, every connection
\* that was handed to a handler thread has been handled to its end: the
\* handler has answered or logged its fault, and has closed the connection.
C36_HandlersFinishBeforeExit ==
  spc = "exited" =>
    \A c \in Conns :
      conn[c].st \in {"running", "killed", "done"} =>
        /\ conn[c].st = "done"
        /\ conn[c].ev # <<>>
        /\ conn[c].ev[Len(conn[c].ev)] = "close"

\* C37: with TLS, while one client's handshake is pending, a connection of
\* another client that waits in the backlog of the open listening socket of
\* a running server can be accepted.
C37_HandshakeHoldsNobody ==
  \A c, d \in Conns :
    /\ c # d
    /\ use_ssl /\ running /\ sock = "listening"
    /\ conn[d].st = "handshake"
    /\ conn[c].st = "queued"
    => ENABLED AcceptTLS(c)

\* The response line for received bytes, a limit and a dataset.
Expected(raw, maxp, dataset) ==
  IF raw = <<>> THEN NOT_FOUND
  ELSE IF Len(raw) > maxp THEN TOO_LARGE
  ELSE IF ~Utf8Valid(raw) THEN INVALID_ENCODING
  ELSE IF Strip(Utf8Decode(raw)) = <<>> THEN NOT_FOUND
  ELSE IF Strip(Utf8Decode(raw)) \in dataset THEN EXISTS
  ELSE NOT_FOUND

\* C38: the response a handler writes is the value of one function of the
\* bytes it received on its own connection, max_payload and the dataset in
\* effect in the step it runs (the file's lines in reread mode, the cached
\* set otherwise), whatever the connection, the TLS setting and the other
\* connections are.
C38_ResponseDeterminism ==
  [][\A c \in Conns :
       conn[c].st = "running" /\ conn'[c].st = "done" /\ conn'[c].out # <<>> =>
         /\ IsPrefix(conn'[c].raw, conn[c].sent)
         /\ conn'[c].out =
              << Expected(conn'[c].raw, max_payload,
                          IF reread_on_query THEN LoadSet(file) ELSE data) >>]_vars

\* With TLS, two clients sent different queries and the one accepted last
\* was answered first; each has the answer to its own query.
C38_Witness ==
  /\ use_ssl
  /\ accepted = 1
  /\ conn[1].st = "done" /\ conn[1].sent = <<65>> /\ conn[1].out = <<NOT_FOUND>>
  /\ conn[2].st = "done" /\ conn[2].sent = <<97>> /\ conn[2].out = <<EXISTS>>

=============================================================================
